---- MODULE Spec2Model ----
(***************************************************************************)
(* The session engine of the reconstructive-memory file finder             *)
(* (backend/api.py, backend/search.py): one Session object, the session    *)
(* table, and the HTTP handlers start / pick / help / answer / backtrack / *)
(* delete.  The density clusterer (hdbscan), the dense embedder and the    *)
(* LLM are external oracles: the clusterer is a deterministic function of   *)
(* the vectors it is given, fixed for the run but unknown (the variable    *)
(* clusterer), the embedder's similarity ranking is a choice, and the LLM  *)
(* either answers or fails for the whole run (llm_up); when it answers, its *)
(* follow-up question may be blank (llm_blank).                            *)
(***************************************************************************)
EXTENDS Integers, Sequences, FiniteSets, TLC

VARIABLES
    sessions,      \* api.sessions: the ids stored in the session table
    session,       \* the Session object of id SessionId (all its fields)
    clusterer,     \* the density clusterer: which labeling it returns on a pool
    llm_up,        \* whether the LLM oracle answers (FALSE: every call fails)
    llm_blank,     \* whether the LLM's follow-up question is blank after strip()
    loop,          \* the server's event loop: the requests it has accepted and not
                   \* yet answered, and how many it has accepted
    issued,        \* the session ids uuid4 has produced so far
    resp,          \* the last HTTP response: [op, code]
    faults,        \* how many handler calls an embedder or clusterer exception ended
    scen           \* history of the scenario start, pick at round 1, pick at round 2,
                   \* backtrack: its stage, the two picks, the retrieved hits and the
                   \* pool that resulted from the first pick

vars == <<sessions, session, issued, clusterer, llm_up, llm_blank, loop, resp, faults, scen>>

----------------------------------------------------------------------------
(* Program constants *)

MAX_FOLLOWUP_QUESTIONS == 3

MAX_CLUSTERS == 4

HDBSCAN_MIN_CLUSTER_SIZE == 5

\* config.DIRECT_MATCH_THRESHOLD = 0.85, scores in hundredths
DIRECT_MATCH_THRESHOLD == 85

(* Bounds of the model *)

\* most hits a search returns
MaxHits == 25

\* most oracle exceptions in one behaviour
MaxFaults == 1

\* a raw cluster has at most this many points above the minimum cluster size
MaxExtra == 1

\* most non-noise clusters the density clusterer returns before the cap
MaxRawClusters == 5

\* most leading noise points in a labeling that has clusters
MaxNoise == 1

\* do_cluster is not run past this round
MaxRound == 3

\* no clustering pass grows the nav tree past this many nodes
MaxNodes == 7

\* answer is not run past this followup_count
MaxCount == 4

\* requests the server accepts in one run of the event-loop model
MaxRequests == 3

None == "None"

\* clusterId of the root node (Python None)
NoCluster == 0 - 2

SessionId == "s1"

----------------------------------------------------------------------------
(* Helpers *)

Min(a, b) == IF a < b THEN a ELSE b

Max(a, b) == IF a > b THEN a ELSE b

Digits == <<"0", "1", "2", "3", "4", "5", "6", "7", "8", "9">>

\* str(n) for 0 <= n <= 99
ToStr(n) == IF n < 10 THEN Digits[n + 1] ELSE Digits[(n \div 10) + 1] \o Digits[(n % 10) + 1]

\* the elements of seq at the indices in I, in order
SubSeqAt(seq, I) ==
    LET F[k \in 0..Len(seq)] ==
            IF k = 0 THEN <<>>
            ELSE IF k \in I THEN Append(F[k - 1], seq[k]) ELSE F[k - 1]
    IN F[Len(seq)]

\* sorted(S) for a finite set of integers
RECURSIVE Sorted(_)
Sorted(S) ==
    IF S = {} THEN <<>>
    ELSE LET m == CHOOSE x \in S : \A y \in S : x <= y
         IN <<m>> \o Sorted(S \ {m})

\* f with key k set to v (dict assignment)
Put(f, k, v) == [x \in (DOMAIN f) \cup {k} |-> IF x = k THEN v ELSE f[x]]

EmptyDict == <<>>

----------------------------------------------------------------------------
(* The corpus and the oracles *)

\* payload "file" of chunk i: chunks 2, 4, 6, 8 and 10 are one file, every other
\* chunk is a file of its own
FileOfChunk(i) == "f" \o ToStr(IF i % 2 = 0 /\ i <= 10 THEN 2 ELSE i)

Chunk(i) == [id |-> i, file |-> FileOfChunk(i)]

\* how many hits a search returns: any count below the minimum cluster size,
\* above it the multiples of that size
HitCounts ==
    { n \in 0..MaxHits : n < HDBSCAN_MIN_CLUSTER_SIZE \/ n % HDBSCAN_MIN_CLUSTER_SIZE = 0 }

\* chunk i of a corpus that holds one indexed file only
OneFileChunk(i) == [id |-> i, file |-> "f2"]

\* search_by_query: the hit lists the vector store may return, the first n
\* chunks of the corpus (<<>>: no hits), or n chunks of a one-file corpus
HitLists ==
    { [i \in 1..n |-> Chunk(i)] : n \in HitCounts } \cup
    { [i \in 1..n |-> OneFileChunk(i)] : n \in HitCounts }

\* chunk i of a corpus that holds two indexed files, chunks of one alternating
\* with chunks of the other
TwoFileChunk(i) == [id |-> i, file |-> IF i % 2 = 0 THEN "f2" ELSE "f1"]

\* the non-empty hit lists a search returns on the two-file corpus
TwoFileLists == { [i \in 1..n |-> TwoFileChunk(i)] : n \in HitCounts \ {0} }

\* hits[0]["score"], in hundredths
TopScores == {DIRECT_MATCH_THRESHOLD - 1, DIRECT_MATCH_THRESHOLD, DIRECT_MATCH_THRESHOLD + 1}

\* the hits with their fused scores, best first: the first hit has the top
\* score, every other hit a lower one
Scored(hits, top) ==
    [i \in DOMAIN hits |->
        [id |-> hits[i].id, file |-> hits[i].file, score |-> IF i = 1 THEN top ELSE top - 1]]

\* cluster_vectors: the min_cluster_size handed to HDBSCAN
min_cs(n_samples) == Max(HDBSCAN_MIN_CLUSTER_SIZE, n_samples \div 15)

\* labelings the density clusterer may return for n points: -1 is noise, the
\* non-noise ids are 0..k-1.  HDBSCAN (allow_single_cluster off) returns no
\* cluster or at least two, each of at least min_cluster_size points: all
\* noise, or after z leading noise points k >= 2 clusters, the points dealt to
\* them in turn, or in blocks with every block but the first of the minimum size
AllNoise(n) == [i \in 1..n |-> 0 - 1]

Dealt(n, k, z) == [i \in 1..n |-> IF i <= z THEN 0 - 1 ELSE (i - z - 1) % k]

HeadHeavy(n, k, z, m) ==
    [i \in 1..n |-> IF i <= z THEN 0 - 1
                    ELSE IF i <= n - (k - 1) * m THEN 0
                    ELSE 1 + ((i - (n - (k - 1) * m) - 1) \div m)]

\* the clusterers a run may have: one that finds no cluster, or one that
\* leaves z leading noise points and finds up to k clusters of either shape
\* The order np.argsort (default kind, not stable) gives equal counts is the
\* build's: lower id first or higher id first.
TieOrders == {"low", "high"}

\* most clusters of the minimum size that the largest pool holds
MostClusters == Min(MaxRawClusters, MaxHits \div HDBSCAN_MIN_CLUSTER_SIZE)

\* the tie order shows only where the cap applies: more than MAX_CLUSTERS
\* clusters, which the largest pool holds only without noise
Clusterers ==
    {[shape |-> "noise", k |-> 0, z |-> 0, ties |-> "low"]} \cup
    { c \in [shape : {"dealt", "head"}, k : 2..MostClusters, z : 0..MaxNoise,
             ties : TieOrders] : c.ties = "low" \/ (c.k > MAX_CLUSTERS /\ c.z = 0) }

\* clusterer.fit_predict on the vectors of this pool: as many of the k clusters
\* as fit with min_cluster_size points each, none when fewer than two fit
fit_predict(c, points) ==
    LET n == Len(points)
        k == Min(c.k, (n - c.z) \div min_cs(n))
    IN  IF c.shape = "noise" \/ k < 2 THEN AllNoise(n)
        ELSE IF c.shape = "dealt" THEN Dealt(n, k, c.z)
        ELSE HeadHeavy(n, k, c.z, min_cs(n))

\* similarity rankings of n points against the context vector (indices, best first)
Rankings(n) == { [i \in 1..n |-> i], [i \in 1..n |-> n + 1 - i] }

\* the answers a user gives
Answers == {"yes"}

FallbackQuestion == "Can you describe anything else you remember about the file?"

\* _ask_followup_question: the LLM's reply after strip(), which is the empty
\* string when the reply is blank, or the fallback when the call fails
_ask_followup_question(up, question_num) ==
    IF ~up THEN FallbackQuestion
    ELSE IF llm_blank THEN ""
    ELSE "Question " \o ToStr(question_num)

\* mutant: the fallback label leaves out the cluster id
label_clusters_unnumbered(up, cids) ==
    [cid \in cids |-> IF up THEN "Topic " \o ToStr(cid) ELSE "Cluster"]

\* label_clusters: one label per cluster id, "Cluster <id>" when the LLM fails
label_clusters(up, cids) ==
    [cid \in cids |-> IF up THEN "Topic " \o ToStr(cid) ELSE "Cluster " \o ToStr(cid)]

Query == "budget report"

\* expand_query: the LLM's paragraph, or the query itself when it fails
expand_query(up, query) == IF up THEN query \o " (expanded)" ELSE query

----------------------------------------------------------------------------
(* search.py: the clusterer's cap and the follow-up filter *)

\* mutant: the surviving cluster ids are not renumbered
cluster_vectors_not_renumbered(raw) ==
    LET unique == { raw[i] : i \in DOMAIN raw } \cap Nat
        counts(c) == Cardinality({ i \in DOMAIN raw : raw[i] = c })
        first(d, c) == IF clusterer.ties = "low" THEN d < c ELSE d > c
        rank(c) == Cardinality({ d \in unique :
                        counts(d) > counts(c) \/ (counts(d) = counts(c) /\ first(d, c)) })
        top_ids == { c \in unique : rank(c) < MAX_CLUSTERS }
    IN  IF Cardinality(unique) > MAX_CLUSTERS
        THEN [i \in DOMAIN raw |-> IF raw[i] \in top_ids THEN raw[i] ELSE 0 - 1]
        ELSE raw

\* mutant: the labeling is returned without the cap
cluster_vectors_uncapped(raw) == raw

\* cluster_vectors after fit_predict: cap to MAX_CLUSTERS and renumber
cluster_vectors(raw) ==
    LET unique == { raw[i] : i \in DOMAIN raw } \cap Nat
        counts(c) == Cardinality({ i \in DOMAIN raw : raw[i] = c })
        \* position of c in argsort(-counts): larger count first, equal counts
        \* in the order of the build (clusterer.ties)
        first(d, c) == IF clusterer.ties = "low" THEN d < c ELSE d > c
        rank(c) == Cardinality({ d \in unique :
                        counts(d) > counts(c) \/ (counts(d) = counts(c) /\ first(d, c)) })
        top_ids == { c \in unique : rank(c) < MAX_CLUSTERS }
        remap(c) == Cardinality({ d \in top_ids : d < c })
    IN  IF Cardinality(unique) > MAX_CLUSTERS
        THEN [i \in DOMAIN raw |-> IF raw[i] \in top_ids THEN remap(raw[i]) ELSE 0 - 1]
        ELSE raw

\* zip(points, labels): the positions both have
Zip(points, labels) == 1..Min(Len(points), Len(labels))

\* _aggregate_cluster_text: its keys, the non-noise labels of the pool
_aggregate_cluster_text(points, labels) ==
    { labels[i] : i \in { j \in Zip(points, labels) : labels[j] # 0 - 1 } }

_cluster_files(points, labels) ==
    [c \in _aggregate_cluster_text(points, labels) |->
        { points[i].file : i \in { j \in Zip(points, labels) : labels[j] = c } }]

\* Counter(int(l) for l in labels if l != -1)
cluster_sizes_of(labels) ==
    [c \in { labels[i] : i \in DOMAIN labels } \ {0 - 1} |->
        Cardinality({ i \in DOMAIN labels : labels[i] = c })]

\* [pt for pt, lbl in zip(points, labels) if lbl == cluster_id]
Narrow(points, labels, cluster_id) ==
    SubSeqAt(points, { i \in Zip(points, labels) : labels[i] = cluster_id })

\* mutant: the kept half is rounded up
filter_keeps_ceil_half(points, ranking) ==
    LET scored == [i \in 1..Len(points) |-> points[ranking[i]]]
        median_idx == Max(1, (Len(scored) + 1) \div 2)
        kept == SubSeq(scored, 1, Min(median_idx, Len(scored)))
    IN  IF Len(kept) < 3
        THEN SubSeq(scored, 1, Min(Max(3, Len(scored)), Len(scored)))
        ELSE kept

\* mutant: a short kept list is padded with the top three instead of replaced
filter_pads_kept(points, ranking) ==
    LET scored == [i \in 1..Len(points) |-> points[ranking[i]]]
        median_idx == Max(1, Len(scored) \div 2)
        kept == SubSeq(scored, 1, Min(median_idx, Len(scored)))
    IN  IF Len(kept) < 3
        THEN kept \o SubSeq(scored, 1, Min(3, Len(scored)))
        ELSE kept

\* _filter_by_followup, given the similarity ranking of the points
_filter_by_followup(points, ranking) ==
    LET scored == [i \in 1..Len(points) |-> points[ranking[i]]]
        median_idx == Max(1, Len(scored) \div 2)
        kept == SubSeq(scored, 1, Min(median_idx, Len(scored)))
    IN  IF Len(kept) < 3
        THEN SubSeq(scored, 1, Min(Max(3, Len(scored)), Len(scored)))
        ELSE kept

----------------------------------------------------------------------------
(* api.py: class Session *)

RootNode == [nodeId |-> "root", label |-> Query, depth |-> 0, parentNodeId |-> None,
             round |-> 0, clusterId |-> NoCluster, isOnPath |-> TRUE]

\* Session.__init__ (created_at, cluster_presentation and the write-only
\* _nav_node_counter are left out; labels None is the empty sequence)
Session(session_id, query, expanded_query, hits) ==
    [id |-> session_id, query |-> query, expanded_query |-> expanded_query,
     points |-> hits, labels |-> <<>>,
     cluster_labels |-> EmptyDict, cluster_files |-> EmptyDict, cluster_sizes |-> EmptyDict,
     conversation |-> <<>>, pending_question |-> None, followup_count |-> 0,
     found_file |-> None, round |-> 0, status |-> "created",
     nav_tree |-> <<>>, current_nav_node |-> None, snapshots |-> EmptyDict]

\* the object before start_search constructs it and after delete drops it
NoSession == Session(None, None, None, <<>>)

unique_files(s) == { s.points[i].file : i \in DOMAIN s.points }

TheFile(s) == CHOOSE f \in unique_files(s) : TRUE

\* "if not self.pending_question": None and the empty string are falsy
Pending(s) == s.pending_question \notin {None, ""}

\* Session._generate_followup
_generate_followup(s, up) ==
    [s EXCEPT !.pending_question = _ask_followup_question(up, s.followup_count + 1),
              !.status = "followup"]

NodeId(cid, round) == "c" \o ToStr(cid) \o "-r" \o ToStr(round)

\* mutant: the snapshot is stored before the round is incremented, under the
\* old round
do_cluster_snapshot_old_round(s, raw, up) ==
    LET round == s.round + 1
        snapshot == [points |-> s.points, conversation |-> s.conversation,
                     followup_count |-> s.followup_count]
        labels == cluster_vectors(raw)
        cluster_texts == _aggregate_cluster_text(s.points, labels)
        s1 == [s EXCEPT !.round = round,
                        !.snapshots = Put(s.snapshots, s.round, snapshot),
                        !.labels = labels,
                        !.cluster_files = _cluster_files(s.points, labels),
                        !.cluster_sizes = cluster_sizes_of(labels)]
        cids == Sorted(cluster_texts)
        nodes == [k \in 1..Len(cids) |->
                    [nodeId |-> NodeId(cids[k], round),
                     label |-> label_clusters(up, cluster_texts)[cids[k]],
                     depth |-> round, parentNodeId |-> s.current_nav_node,
                     round |-> round, clusterId |-> cids[k], isOnPath |-> FALSE]]
    IN  IF cluster_texts = {}
        THEN _generate_followup([s1 EXCEPT !.status = "followup"], up)
        ELSE [s1 EXCEPT !.cluster_labels = label_clusters(up, cluster_texts),
                        !.status = "clusters",
                        !.nav_tree = s.nav_tree \o nodes]

\* Session.do_cluster, with raw the labeling fit_predict returns on the pool
do_cluster(s, raw, up) ==
    LET round == s.round + 1
        snapshot == [points |-> s.points, conversation |-> s.conversation,
                     followup_count |-> s.followup_count]
        labels == cluster_vectors(raw)
        cluster_texts == _aggregate_cluster_text(s.points, labels)
        s1 == [s EXCEPT !.round = round,
                        !.snapshots = Put(s.snapshots, round, snapshot),
                        !.labels = labels,
                        !.cluster_files = _cluster_files(s.points, labels),
                        !.cluster_sizes = cluster_sizes_of(labels)]
        cids == Sorted(cluster_texts)
        nodes == [k \in 1..Len(cids) |->
                    [nodeId |-> NodeId(cids[k], round),
                     label |-> label_clusters(up, cluster_texts)[cids[k]],
                     depth |-> round, parentNodeId |-> s.current_nav_node,
                     round |-> round, clusterId |-> cids[k], isOnPath |-> FALSE]]
    IN  IF cluster_texts = {}
        THEN _generate_followup([s1 EXCEPT !.status = "followup"], up)
        ELSE [s1 EXCEPT !.cluster_labels = label_clusters(up, cluster_texts),
                        !.status = "clusters",
                        !.nav_tree = s.nav_tree \o nodes]

\* Session.do_cluster when cluster_vectors raises: the round is already
\* incremented and the snapshot already stored
do_cluster_raised(s) ==
    [s EXCEPT !.round = s.round + 1,
              !.snapshots = Put(s.snapshots, s.round + 1,
                                [points |-> s.points, conversation |-> s.conversation,
                                 followup_count |-> s.followup_count])]

\* whether _check_termination_or_recluster reaches do_cluster on this pool
Reclusters(points) ==
    /\ Cardinality({ points[i].file : i \in DOMAIN points }) # 1
    /\ Len(points) >= 3

\* mutant: a pool of fewer than 3 chunks is declared found without the
\* single-file check
check_termination_small_pool_found(s, raw, up) ==
    IF Cardinality(unique_files(s)) = 1 \/ Len(s.points) < 3
    THEN [s EXCEPT !.found_file = TheFile(s), !.status = "found"]
    ELSE do_cluster(s, raw, up)

\* mutant: the floor of 3 chunks is left out, a small pool is clustered again
check_termination_without_floor(s, raw, up) ==
    IF Cardinality(unique_files(s)) = 1
    THEN [s EXCEPT !.found_file = TheFile(s), !.status = "found"]
    ELSE do_cluster(s, raw, up)

\* Session._check_termination_or_recluster
_check_termination_or_recluster(s, raw, up) ==
    IF Cardinality(unique_files(s)) = 1
    THEN [s EXCEPT !.found_file = TheFile(s), !.status = "found"]
    ELSE IF Len(s.points) < 3
    THEN [s EXCEPT !.status = "exhausted"]
    ELSE do_cluster(s, raw, up)


\* index of the first nav-tree entry with this nodeId (0: none)
FirstNode(s, node_id) ==
    LET hit == { i \in DOMAIN s.nav_tree : s.nav_tree[i].nodeId = node_id }
    IN  IF hit = {} THEN 0 ELSE CHOOSE i \in hit : \A j \in hit : i <= j

\* Session.pick_cluster up to the termination check: the chosen node marked
\* on-path and made current, the pool narrowed to the chosen cluster
pick_narrowed(s, cluster_id) ==
    LET chosen_node_id == NodeId(cluster_id, s.round)
        n == FirstNode(s, chosen_node_id)
        s1 == IF n = 0 THEN s
              ELSE [s EXCEPT !.nav_tree[n].isOnPath = TRUE,
                             !.current_nav_node = chosen_node_id]
    IN  [s1 EXCEPT !.points = Narrow(s.points, s.labels, cluster_id)]

\* Session.pick_cluster
pick_cluster(s, cluster_id, raw, up) ==
    _check_termination_or_recluster(pick_narrowed(s, cluster_id), raw, up)

\* Session.start_followup
start_followup(s, up) == _generate_followup([s EXCEPT !.status = "followup"], up)

\* Session.answer_followup up to the filter: the pair is appended and the
\* question cleared before the embedder is called
answer_recorded(s, answer) ==
    [s EXCEPT !.conversation = Append(s.conversation, [q |-> s.pending_question, a |-> answer]),
              !.pending_question = None]

\* mutant: the question count alone decides, a pool of at most 3 files gets
\* another question
answer_followup_ignores_file_count(s, answer, ranking, raw, up) ==
    LET s1 == answer_recorded(s, answer)
        s2 == [s1 EXCEPT !.points = _filter_by_followup(s.points, ranking),
                         !.followup_count = s.followup_count + 1]
    IN  IF Cardinality(unique_files(s2)) = 1
        THEN [s2 EXCEPT !.found_file = TheFile(s2), !.status = "found"]
        ELSE IF s2.followup_count >= MAX_FOLLOWUP_QUESTIONS
        THEN _check_termination_or_recluster(s2, raw, up)
        ELSE _generate_followup(s2, up)

\* Session.answer_followup (a question is pending)
answer_followup(s, answer, ranking, raw, up) ==
    LET s1 == answer_recorded(s, answer)
        s2 == [s1 EXCEPT !.points = _filter_by_followup(s.points, ranking),
                         !.followup_count = s.followup_count + 1]
    IN  IF Cardinality(unique_files(s2)) = 1
        THEN [s2 EXCEPT !.found_file = TheFile(s2), !.status = "found"]
        ELSE IF s2.followup_count >= MAX_FOLLOWUP_QUESTIONS
        THEN _check_termination_or_recluster(s2, raw, up)
        ELSE IF Cardinality(unique_files(s2)) <= 3
        THEN _check_termination_or_recluster(s2, raw, up)
        ELSE _generate_followup(s2, up)

\* Session.backtrack raises ValueError: unknown node, or no snapshot for its round
BacktrackRaises(s, target_node_id) ==
    IF FirstNode(s, target_node_id) = 0 THEN TRUE
    ELSE s.nav_tree[FirstNode(s, target_node_id)].round \notin DOMAIN s.snapshots

\* mutant: the target is marked on-path, its siblings keep their marks
backtrack_restored_siblings_kept(s, target_node_id) ==
    LET target == s.nav_tree[FirstNode(s, target_node_id)]
        target_round == target.round
        saved == s.snapshots[target_round]
        pruned == SelectSeq(s.nav_tree, LAMBDA entry : entry.round <= target_round)
        marked == [i \in DOMAIN pruned |->
                     IF /\ pruned[i].round = target_round
                        /\ pruned[i].parentNodeId = target.parentNodeId
                        /\ pruned[i].nodeId = target_node_id
                     THEN [pruned[i] EXCEPT !.isOnPath = TRUE]
                     ELSE pruned[i]]
    IN  [s EXCEPT !.points = saved.points,
                  !.conversation = saved.conversation,
                  !.followup_count = saved.followup_count,
                  !.found_file = None,
                  !.pending_question = None,
                  !.nav_tree = marked,
                  !.current_nav_node = target_node_id,
                  !.snapshots = [r \in { k \in DOMAIN s.snapshots : k <= target_round } |->
                                    s.snapshots[r]]]

\* mutant: the pool and the tree are restored, the conversation and the
\* question count are left as they are
backtrack_restored_conversation_kept(s, target_node_id) ==
    LET target == s.nav_tree[FirstNode(s, target_node_id)]
        target_round == target.round
        saved == s.snapshots[target_round]
        pruned == SelectSeq(s.nav_tree, LAMBDA entry : entry.round <= target_round)
        marked == [i \in DOMAIN pruned |->
                     IF /\ pruned[i].round = target_round
                        /\ pruned[i].parentNodeId = target.parentNodeId
                     THEN [pruned[i] EXCEPT !.isOnPath = (pruned[i].nodeId = target_node_id)]
                     ELSE pruned[i]]
    IN  [s EXCEPT !.points = saved.points,
                  !.found_file = None,
                  !.pending_question = None,
                  !.nav_tree = marked,
                  !.current_nav_node = target_node_id,
                  !.snapshots = [r \in { k \in DOMAIN s.snapshots : k <= target_round } |->
                                    s.snapshots[r]]]

\* Session.backtrack up to the re-clustering: snapshot restored, tree pruned and
\* re-marked, later snapshots dropped
backtrack_restored(s, target_node_id) ==
    LET target == s.nav_tree[FirstNode(s, target_node_id)]
        target_round == target.round
        saved == s.snapshots[target_round]
        pruned == SelectSeq(s.nav_tree, LAMBDA entry : entry.round <= target_round)
        marked == [i \in DOMAIN pruned |->
                     IF /\ pruned[i].round = target_round
                        /\ pruned[i].parentNodeId = target.parentNodeId
                     THEN [pruned[i] EXCEPT !.isOnPath = (pruned[i].nodeId = target_node_id)]
                     ELSE pruned[i]]
    IN  [s EXCEPT !.points = saved.points,
                  !.conversation = saved.conversation,
                  !.followup_count = saved.followup_count,
                  !.found_file = None,
                  !.pending_question = None,
                  !.nav_tree = marked,
                  !.current_nav_node = target_node_id,
                  !.snapshots = [r \in { k \in DOMAIN s.snapshots : k <= target_round } |->
                                    s.snapshots[r]]]

\* mutant: the round is left at the target's round before the re-clustering
backtrack_round_kept(s, target_node_id, raw1, raw2, up) ==
    LET target == s.nav_tree[FirstNode(s, target_node_id)]
        s1 == backtrack_restored(s, target_node_id)
        labels == cluster_vectors(raw1)
        s2 == [s1 EXCEPT !.round = target.round,
                         !.labels = labels,
                         !.points = Narrow(s1.points, labels, target.clusterId)]
    IN  _check_termination_or_recluster(s2, raw2, up)

\* mutant: the narrowed pool is clustered again without the termination check
backtrack_always_reclusters(s, target_node_id, raw1, raw2, up) ==
    LET target == s.nav_tree[FirstNode(s, target_node_id)]
        s1 == backtrack_restored(s, target_node_id)
        labels == cluster_vectors(raw1)
        s2 == [s1 EXCEPT !.round = target.round - 1,
                         !.labels = labels,
                         !.points = Narrow(s1.points, labels, target.clusterId)]
    IN  do_cluster(s2, raw2, up)

\* Session.backtrack (no ValueError): raw1 is the labeling of the restored pool,
\* raw2 the labeling of the narrowed pool when it is clustered again
backtrack(s, target_node_id, raw1, raw2, up) ==
    LET target == s.nav_tree[FirstNode(s, target_node_id)]
        s1 == backtrack_restored(s, target_node_id)
    IN  IF target.clusterId # NoCluster
        THEN LET labels == cluster_vectors(raw1)
                 s2 == [s1 EXCEPT !.round = target.round - 1,
                                  !.labels = labels,
                                  !.points = Narrow(s1.points, labels, target.clusterId)]
             IN  _check_termination_or_recluster(s2, raw2, up)
        ELSE do_cluster([s1 EXCEPT !.round = 0], raw1, up)

\* Session.to_dict (file_scores left out; files and remaining_files, sorted
\* lists without duplicates, are the sets of their elements)
to_dict(s) ==
    LET base == [session_id |-> s.id, status |-> s.status, round |-> s.round,
                 query |-> s.query, expanded_query |-> s.expanded_query,
                 total_chunks |-> Len(s.points), files |-> unique_files(s),
                 conversation |-> s.conversation, nav_tree |-> s.nav_tree,
                 current_nav_node |-> s.current_nav_node]
        cids == Sorted(DOMAIN s.cluster_labels)
        clusters == [k \in 1..Len(cids) |->
                        [id |-> cids[k], label |-> s.cluster_labels[cids[k]],
                         files |-> IF cids[k] \in DOMAIN s.cluster_files
                                   THEN s.cluster_files[cids[k]] ELSE {},
                         size |-> IF cids[k] \in DOMAIN s.cluster_sizes
                                  THEN s.cluster_sizes[cids[k]] ELSE 0]]
    IN  IF s.status = "clusters" THEN base @@ [clusters |-> clusters]
        ELSE IF s.status = "followup"
        THEN base @@ [pending_question |-> s.pending_question,
                      followup_count |-> s.followup_count,
                      max_followups |-> MAX_FOLLOWUP_QUESTIONS]
        ELSE IF s.status = "found" THEN base @@ [found_file |-> s.found_file]
        ELSE IF s.status = "exhausted" THEN base @@ [remaining_files |-> unique_files(s)]
        ELSE base

----------------------------------------------------------------------------
(* The requests a client may send *)

ClusterIds == 0..MAX_CLUSTERS

NodeIds ==
    {"root", "nope"} \cup { NodeId(c, r) : c \in 0..(MAX_CLUSTERS - 1), r \in 1..MaxRound }

Response(op, code) == [op |-> op, code |-> code]

\* uvicorn's event loop before the first request: nothing accepted
IdleLoop == [tasks |-> {}, received |-> 0]

Stage(stage, a, b, hits, pool) ==
    [stage |-> stage, a |-> a, b |-> b, hits |-> hits, pool |-> pool]

OffScenario == Stage("off", 0 - 1, 0 - 1, <<>>, <<>>)

\* a request that is not the scenario's next step: the stages "back_root" and
\* "back_node" say that the backtrack was the last request
Lapse(sc) == IF sc.stage \in {"back_root", "back_node"} THEN OffScenario ELSE sc

----------------------------------------------------------------------------
(* State machine: one action per HTTP handler outcome *)

Init ==
    /\ sessions = {}
    /\ session = NoSession
    /\ issued = {}
    /\ clusterer \in Clusterers
    /\ llm_up \in BOOLEAN
    /\ llm_blank \in {b \in BOOLEAN : b => llm_up}
    /\ loop = IdleLoop
    /\ resp = Response("none", 0)
    /\ faults = 0
    /\ scen = OffScenario

\* mutant: the session id is stored before the empty result is reported
start_no_hits_stores ==
    /\ resp' = Response("start", 404)
    /\ sessions' = sessions \cup {SessionId}
    /\ scen' = Lapse(scen)
    /\ UNCHANGED <<session, issued, clusterer, llm_up, llm_blank, loop, faults>>

\* POST /search, no hits: 404, no session is built
StartNoHits ==
    /\ resp' = Response("start", 404)
    /\ scen' = Lapse(scen)
    /\ UNCHANGED <<sessions, session, issued, clusterer, llm_up, llm_blank, loop, faults>>

\* POST /search, search_by_query raises (vector store or embedder): 500 before
\* any session is built
StartStoreFails ==
    /\ resp' = Response("start", 500)
    /\ scen' = Lapse(scen)
    /\ UNCHANGED <<sessions, session, issued, clusterer, llm_up, llm_blank, loop, faults>>

\* POST /search, first hit at or above the threshold
StartDirect ==
    /\ SessionId \notin issued
    /\ issued' = issued \cup {SessionId}
    /\ \E hits \in HitLists \ {<<>>}, score \in TopScores :
        /\ score >= DIRECT_MATCH_THRESHOLD
        /\ LET s0 == Session(SessionId, Query, expand_query(llm_up, Query), Scored(hits, score))
               s1 == [s0 EXCEPT !.nav_tree = <<RootNode>>, !.current_nav_node = "root"]
           IN  session' = [s1 EXCEPT !.found_file = hits[1].file, !.status = "found"]
    /\ sessions' = sessions \cup {SessionId}
    /\ resp' = Response("start", 200)
    /\ UNCHANGED <<clusterer, llm_up, llm_blank, loop, faults, scen>>

\* mutant: a first hit exactly at the threshold is clustered
start_cluster_at_threshold ==
    /\ SessionId \notin issued
    /\ issued' = issued \cup {SessionId}
    /\ \E hits \in HitLists \ {<<>>}, score \in TopScores :
        /\ score <= DIRECT_MATCH_THRESHOLD
        /\ LET s0 == Session(SessionId, Query, expand_query(llm_up, Query), Scored(hits, score))
               s1 == [s0 EXCEPT !.nav_tree = <<RootNode>>, !.current_nav_node = "root"]
           IN  session' = do_cluster(s1, fit_predict(clusterer, hits), llm_up)
    /\ sessions' = sessions \cup {SessionId}
    /\ resp' = Response("start", 200)
    /\ scen' = OffScenario
    /\ UNCHANGED <<clusterer, llm_up, llm_blank, loop, faults>>

\* POST /search, first hit below the threshold: the first clustering pass
StartCluster ==
    /\ SessionId \notin issued
    /\ issued' = issued \cup {SessionId}
    /\ \E hits \in HitLists \ {<<>>}, score \in TopScores :
        /\ score < DIRECT_MATCH_THRESHOLD
        /\ LET s0 == Session(SessionId, Query, expand_query(llm_up, Query), Scored(hits, score))
               s1 == [s0 EXCEPT !.nav_tree = <<RootNode>>, !.current_nav_node = "root"]
           IN  session' = do_cluster(s1, fit_predict(clusterer, hits), llm_up)
    /\ sessions' = sessions \cup {SessionId}
    /\ resp' = Response("start", 200)
    /\ scen' = IF session'.status = "clusters"
               THEN Stage("start", 0 - 1, 0 - 1, session'.points, <<>>)
               ELSE OffScenario
    /\ UNCHANGED <<clusterer, llm_up, llm_blank, loop, faults>>


\* POST /search on the two-file corpus, first hit below the threshold
StartFewFiles ==
    /\ SessionId \notin issued
    /\ issued' = issued \cup {SessionId}
    /\ \E hits \in TwoFileLists :
        LET s0 == Session(SessionId, Query, expand_query(llm_up, Query),
                          Scored(hits, DIRECT_MATCH_THRESHOLD - 1))
            s1 == [s0 EXCEPT !.nav_tree = <<RootNode>>, !.current_nav_node = "root"]
        IN  session' = do_cluster(s1, fit_predict(clusterer, hits), llm_up)
    /\ sessions' = sessions \cup {SessionId}
    /\ resp' = Response("start", 200)
    /\ scen' = OffScenario
    /\ UNCHANGED <<clusterer, llm_up, llm_blank, loop, faults>>

\* mutant: the cluster id is not looked up in cluster_labels
pick_any_cluster_id(cluster_id) ==
    /\ SessionId \in sessions
    /\ session.status = "clusters"
    /\ LET kept == Narrow(session.points, session.labels, cluster_id)
       IN  session' = pick_cluster(session, cluster_id, fit_predict(clusterer, kept), llm_up)
    /\ session'.round <= MaxRound
    /\ Len(session'.nav_tree) <= MaxNodes
    /\ resp' = Response("pick", 200)
    /\ scen' = OffScenario
    /\ UNCHANGED <<sessions, issued, clusterer, llm_up, llm_blank, loop, faults>>

\* POST /session/{id}/pick, accepted
Pick(cluster_id) ==
    /\ SessionId \in sessions
    /\ session.status = "clusters"
    /\ cluster_id \in DOMAIN session.cluster_labels
    /\ LET kept == Narrow(session.points, session.labels, cluster_id)
       IN  session' = pick_cluster(session, cluster_id, fit_predict(clusterer, kept), llm_up)
    /\ session'.round <= MaxRound
    /\ Len(session'.nav_tree) <= MaxNodes
    /\ resp' = Response("pick", 200)
    /\ scen' = IF scen.stage = "start" /\ session.round = 1
               THEN Stage("pick1", cluster_id, 0 - 1, scen.hits, session'.points)
               ELSE IF scen.stage = "pick1" /\ session.round = 2
               THEN Stage("pick2", scen.a, cluster_id, scen.hits, scen.pool)
               ELSE OffScenario
    /\ UNCHANGED <<sessions, issued, clusterer, llm_up, llm_blank, loop, faults>>

\* POST /session/{id}/pick, rejected: wrong status or unknown cluster id
PickRejected(cluster_id) ==
    /\ SessionId \in sessions
    /\ \/ session.status # "clusters"
       \/ cluster_id \notin DOMAIN session.cluster_labels
    /\ resp' = Response("pick", 400)
    /\ scen' = Lapse(scen)
    /\ UNCHANGED <<sessions, session, issued, clusterer, llm_up, llm_blank, loop, faults>>

\* mutant: the followup_count cap is not checked
help_without_cap ==
    /\ SessionId \in sessions
    /\ session.status \in {"clusters", "followup"}
    /\ session' = start_followup(session, llm_up)
    /\ resp' = Response("help", 200)
    /\ scen' = OffScenario
    /\ UNCHANGED <<sessions, issued, clusterer, llm_up, llm_blank, loop, faults>>

\* POST /session/{id}/help, accepted
Help ==
    /\ SessionId \in sessions
    /\ session.status \in {"clusters", "followup"}
    /\ session.followup_count < MAX_FOLLOWUP_QUESTIONS
    /\ session' = start_followup(session, llm_up)
    /\ resp' = Response("help", 200)
    /\ scen' = OffScenario
    /\ UNCHANGED <<sessions, issued, clusterer, llm_up, llm_blank, loop, faults>>

\* POST /session/{id}/help, rejected
HelpRejected ==
    /\ SessionId \in sessions
    /\ \/ session.status \notin {"clusters", "followup"}
       \/ session.followup_count >= MAX_FOLLOWUP_QUESTIONS
    /\ resp' = Response("help", 400)
    /\ scen' = Lapse(scen)
    /\ UNCHANGED <<sessions, session, issued, clusterer, llm_up, llm_blank, loop, faults>>

\* POST /session/{id}/answer, accepted
Answer(answer) ==
    /\ SessionId \in sessions
    /\ session.status = "followup"
    /\ Pending(session)
    /\ session.followup_count < MaxCount
    /\ \E ranking \in Rankings(Len(session.points)) :
        LET kept == _filter_by_followup(session.points, ranking)
        IN  session' = answer_followup(session, answer, ranking,
                                       fit_predict(clusterer, kept), llm_up)
    /\ session'.round <= MaxRound
    /\ Len(session'.nav_tree) <= MaxNodes
    /\ resp' = Response("answer", 200)
    /\ scen' = OffScenario
    /\ UNCHANGED <<sessions, issued, clusterer, llm_up, llm_blank, loop, faults>>

\* POST /session/{id}/answer, rejected: status is not followup
AnswerRejected ==
    /\ SessionId \in sessions
    /\ session.status # "followup"
    /\ resp' = Response("answer", 400)
    /\ scen' = Lapse(scen)
    /\ UNCHANGED <<sessions, session, issued, clusterer, llm_up, llm_blank, loop, faults>>

\* POST /session/{id}/answer on a followup session with no pending question:
\* the ValueError is not caught by the endpoint
AnswerNoQuestion ==
    /\ SessionId \in sessions
    /\ session.status = "followup"
    /\ ~Pending(session)
    /\ resp' = Response("answer", 500)
    /\ scen' = Lapse(scen)
    /\ UNCHANGED <<sessions, session, issued, clusterer, llm_up, llm_blank, loop, faults>>

\* POST /session/{id}/backtrack, accepted
Backtrack(node_id) ==
    /\ SessionId \in sessions
    /\ ~BacktrackRaises(session, node_id)
    /\ LET target == session.nav_tree[FirstNode(session, node_id)]
           saved == session.snapshots[target.round].points
           raw1 == fit_predict(clusterer, saved)
           kept == Narrow(saved, cluster_vectors(raw1), target.clusterId)
       IN  session' = backtrack(session, node_id, raw1, fit_predict(clusterer, kept), llm_up)
    /\ session'.round <= MaxRound
    /\ Len(session'.nav_tree) <= MaxNodes
    /\ resp' = Response("backtrack", 200)
    /\ scen' = IF scen.stage = "pick2" /\ node_id = NodeId(scen.a, 1)
               THEN [scen EXCEPT !.stage = "back_node"]
               ELSE IF scen.stage = "pick2" /\ node_id = "root"
               THEN [scen EXCEPT !.stage = "back_root"]
               ELSE OffScenario
    /\ UNCHANGED <<sessions, issued, clusterer, llm_up, llm_blank, loop, faults>>

\* mutant: found_file and pending_question are cleared before the lookup raises
backtrack_rejected_after_clearing(node_id) ==
    /\ SessionId \in sessions
    /\ BacktrackRaises(session, node_id)
    /\ session' = [session EXCEPT !.found_file = None, !.pending_question = None]
    /\ resp' = Response("backtrack", 400)
    /\ scen' = Lapse(scen)
    /\ UNCHANGED <<sessions, issued, clusterer, llm_up, llm_blank, loop, faults>>

\* POST /session/{id}/backtrack, rejected: ValueError turned into 400
BacktrackRejected(node_id) ==
    /\ SessionId \in sessions
    /\ BacktrackRaises(session, node_id)
    /\ resp' = Response("backtrack", 400)
    /\ scen' = IF scen.stage = "pick2" /\ node_id = "root"
               THEN [scen EXCEPT !.stage = "back_root"]
               ELSE Lapse(scen)
    /\ UNCHANGED <<sessions, session, issued, clusterer, llm_up, llm_blank, loop, faults>>

\* mutant: deleting an id that is not in the table is answered 404
delete_unknown_is_404 ==
    /\ sessions' = sessions \ {SessionId}
    /\ session' = IF SessionId \in sessions THEN NoSession ELSE session
    /\ resp' = Response("delete", IF SessionId \in sessions THEN 200 ELSE 404)
    /\ scen' = OffScenario
    /\ UNCHANGED <<issued, clusterer, llm_up, llm_blank, loop, faults>>

\* GET /session/{id}
GetSession ==
    /\ resp' = Response("get", IF SessionId \in sessions THEN 200 ELSE 404)
    /\ scen' = Lapse(scen)
    /\ UNCHANGED <<sessions, session, issued, clusterer, llm_up, llm_blank, loop, faults>>

\* pick, help, answer or backtrack on an id that is not in the table
NotFound(op) ==
    /\ SessionId \notin sessions
    /\ resp' = Response(op, 404)
    /\ scen' = Lapse(scen)
    /\ UNCHANGED <<sessions, session, issued, clusterer, llm_up, llm_blank, loop, faults>>

\* DELETE /session/{id}: always 200
DeleteSession ==
    /\ sessions' = sessions \ {SessionId}
    /\ session' = IF SessionId \in sessions THEN NoSession ELSE session
    /\ resp' = Response("delete", 200)
    /\ scen' = OffScenario
    /\ UNCHANGED <<issued, clusterer, llm_up, llm_blank, loop, faults>>

Next ==
    \/ StartNoHits
    \/ StartDirect
    \/ StartCluster
    \/ \E cluster_id \in ClusterIds : Pick(cluster_id)
    \/ \E cluster_id \in ClusterIds : PickRejected(cluster_id)
    \/ Help
    \/ HelpRejected
    \/ \E answer \in Answers : Answer(answer)
    \/ AnswerRejected
    \/ AnswerNoQuestion
    \/ \E node_id \in NodeIds : Backtrack(node_id)
    \/ \E node_id \in NodeIds : BacktrackRejected(node_id)
    \/ GetSession
    \/ \E op \in {"pick", "help", "answer", "backtrack"} : NotFound(op)
    \/ DeleteSession

\* every handler outcome in which the search, the embedder and the clusterer
\* return
Spec == Init /\ [][Next]_vars

\* the accepted operations only: a rejected request or a read changes resp alone
NextEngine ==
    \/ StartDirect
    \/ StartCluster
    \/ \E cluster_id \in ClusterIds : Pick(cluster_id)
    \/ Help
    \/ \E answer \in Answers : Answer(answer)
    \/ \E node_id \in NodeIds : Backtrack(node_id)

SpecEngine == Init /\ [][NextEngine]_vars

----------------------------------------------------------------------------
(* Oracle failures: the embedder or the clusterer raises inside a handler,   *)
(* which FastAPI turns into a 500                                            *)

\* POST /session/{id}/answer, dense_model.encode raises in _filter_by_followup
AnswerFilterFails(answer) ==
    /\ SessionId \in sessions
    /\ session.status = "followup"
    /\ Pending(session)
    /\ session' = answer_recorded(session, answer)
    /\ resp' = Response("answer", 500)
    /\ scen' = OffScenario
    /\ faults < MaxFaults
    /\ faults' = faults + 1
    /\ UNCHANGED <<sessions, issued, clusterer, llm_up, llm_blank, loop>>

\* POST /session/{id}/pick, cluster_vectors raises in do_cluster
PickClusterFails(cluster_id) ==
    /\ SessionId \in sessions
    /\ session.status = "clusters"
    /\ cluster_id \in DOMAIN session.cluster_labels
    /\ Reclusters(Narrow(session.points, session.labels, cluster_id))
    /\ session' = do_cluster_raised(pick_narrowed(session, cluster_id))
    /\ session'.round <= MaxRound
    /\ resp' = Response("pick", 500)
    /\ scen' = OffScenario
    /\ faults < MaxFaults
    /\ faults' = faults + 1
    /\ UNCHANGED <<sessions, issued, clusterer, llm_up, llm_blank, loop>>

\* POST /session/{id}/backtrack to a cluster node, cluster_vectors raises on
\* the restored pool
BacktrackClusterFails(node_id) ==
    /\ SessionId \in sessions
    /\ ~BacktrackRaises(session, node_id)
    /\ session.nav_tree[FirstNode(session, node_id)].clusterId # NoCluster
    /\ session' = [backtrack_restored(session, node_id) EXCEPT
                      !.round = session.nav_tree[FirstNode(session, node_id)].round - 1]
    /\ resp' = Response("backtrack", 500)
    /\ scen' = OffScenario
    /\ faults < MaxFaults
    /\ faults' = faults + 1
    /\ UNCHANGED <<sessions, issued, clusterer, llm_up, llm_blank, loop>>

NextFail ==
    \/ NextEngine
    \/ \E answer \in Answers : AnswerFilterFails(answer)
    \/ AnswerNoQuestion
    \/ \E cluster_id \in ClusterIds : PickClusterFails(cluster_id)
    \/ \E node_id \in NodeIds : BacktrackClusterFails(node_id)

\* the accepted operations, each of which may fail at an oracle call
SpecFail == Init /\ [][NextFail]_vars

\* the user keeps issuing accepted pick and answer operations, no backtrack
NextConverge ==
    \/ StartDirect
    \/ StartCluster
    \/ \E cluster_id \in ClusterIds : Pick(cluster_id)
    \/ \E answer \in Answers : Answer(answer)

SpecConverge == Init /\ [][NextConverge]_vars /\ WF_vars(NextConverge)

\* picks and answers with no backtrack, where the clusterer may raise inside a
\* pick: the next pick then narrows the kept pool by the labels of the old one
NextStalePick ==
    \/ NextConverge
    \/ \E cluster_id \in ClusterIds : PickClusterFails(cluster_id)

SpecStalePick == Init /\ [][NextStalePick]_vars

\* an LLM that answers every call, and with a question
InitAnswering ==
    /\ Init
    /\ llm_up
    /\ ~llm_blank

\* every handler outcome of Next that such an LLM leaves possible: all but the
\* answer to a blank question
NextRequests ==
    \/ NextEngine
    \/ StartNoHits
    \/ \E cluster_id \in ClusterIds : PickRejected(cluster_id)
    \/ HelpRejected
    \/ AnswerRejected
    \/ \E node_id \in NodeIds : BacktrackRejected(node_id)
    \/ GetSession
    \/ \E op \in {"pick", "help", "answer", "backtrack"} : NotFound(op)
    \/ DeleteSession

SpecRequests == InitAnswering /\ [][NextRequests]_vars

\* the accepted operations, where the hits of the search may also belong to
\* two files: an answer then leaves at most 3 files in a pool large enough to
\* be clustered again
NextFewFiles ==
    \/ StartFewFiles
    \/ NextEngine

SpecFewFiles == Init /\ [][NextFewFiles]_vars

\* POST /search and GET /session/{id} only: every outcome of start, the
\* search raising included
NextStart ==
    \/ StartNoHits
    \/ StartStoreFails
    \/ StartDirect
    \/ StartCluster
    \/ GetSession

SpecStart == Init /\ [][NextStart]_vars

----------------------------------------------------------------------------
(* search.py as functions: _filter_by_followup and cluster_vectors called  *)
(* once on an input drawn from the pools and the labelings below           *)

\* the input pools of the filter: the first n chunks of the corpus
Pools == { [i \in 1..n |-> Chunk(i)] : n \in 1..MaxHits }

\* sizes of the raw clusters, each of at least the minimum cluster size
ClusterSizes == HDBSCAN_MIN_CLUSTER_SIZE..(HDBSCAN_MIN_CLUSTER_SIZE + MaxExtra)

\* the labeling that gives sizes[c] consecutive points the id c - 1, from cluster c on
RECURSIVE Blocks(_, _)
Blocks(sizes, c) ==
    IF c > Len(sizes) THEN <<>>
    ELSE [j \in 1..sizes[c] |-> c - 1] \o Blocks(sizes, c + 1)

\* labelings fit_predict may return: z noise points, then no cluster or at
\* least two, numbered from 0 without gaps
RawLabelings ==
    { AllNoise(z) \o Blocks(sizes, 1) :
        z \in 0..MaxNoise,
        sizes \in UNION { [1..k -> ClusterSizes] : k \in {0} \cup (2..MaxRawClusters) } }
    \ {<<>>}

\* the session object only carries the input: its pool or its labeling
InitFunctions ==
    /\ sessions = {}
    /\ issued = {}
    /\ clusterer \in { c \in Clusterers : c.shape = "dealt" /\ c.k = MostClusters /\ c.z = 0 }
    /\ llm_up = TRUE
    /\ llm_blank = FALSE
    /\ loop = IdleLoop
    /\ resp = Response("none", 0)
    /\ faults = 0
    /\ scen = OffScenario
    /\ session \in { [NoSession EXCEPT !.points = pool] : pool \in Pools } \cup
                   { [NoSession EXCEPT !.labels = raw] : raw \in RawLabelings }

\* _filter_by_followup(points, ...) on the pool, for some similarity ranking
FilterCall ==
    /\ resp.op = "none"
    /\ session.points # <<>>
    /\ \E ranking \in Rankings(Len(session.points)) :
        session' = [session EXCEPT !.points = _filter_by_followup(session.points, ranking)]
    /\ resp' = Response("_filter_by_followup", 0)
    /\ UNCHANGED <<sessions, issued, clusterer, llm_up, llm_blank, loop, faults, scen>>

\* cluster_vectors from the labels fit_predict returned
CapCall ==
    /\ resp.op = "none"
    /\ session.labels # <<>>
    /\ session' = [session EXCEPT !.labels = cluster_vectors(session.labels)]
    /\ resp' = Response("cluster_vectors", 0)
    /\ UNCHANGED <<sessions, issued, clusterer, llm_up, llm_blank, loop, faults, scen>>

NextFunctions == FilterCall \/ CapCall

SpecFunctions == InitFunctions /\ [][NextFunctions]_vars

TypeOK ==
    /\ sessions \subseteq {SessionId}
    /\ session.status \in {"created", "clusters", "followup", "found", "exhausted"}
    /\ session.round \in 0..MaxRound

----------------------------------------------------------------------------
(* api.py under uvicorn: every handler is an `async def` coroutine with no  *)
(* await in its body, run by the one event loop of the one server process   *)

\* a request on the session of id SessionId
Request(op, cluster_id, node_id, answer) ==
    [op |-> op, cluster_id |-> cluster_id, node_id |-> node_id, answer |-> answer]

\* the requests clients send while others are being served
LoopRequests ==
    { Request(op, 0, None, None) : op \in {"get", "help", "delete"} } \cup
    { Request("pick", 0, None, None) } \cup
    { Request("answer", 0, None, answer) : answer \in Answers } \cup
    { Request("backtrack", 0, node_id, None) : node_id \in {"root", NodeId(0, 1)} }

\* the session table and its one Session object, as a handler finds them
View == [sessions |-> sessions, session |-> session]

\* the task the loop creates for an accepted request: its coroutine has not
\* run yet
Task(n, req) ==
    [id |-> n, req |-> req, stage |-> "pending",
     seen |-> [sessions |-> {}, session |-> NoSession]]

\* the tasks whose coroutine has started and not returned
Running == { t \in loop.tasks : t.stage = "running" }

\* what the body of the handler of req does after its sessions.get found the
\* table tbl: the session and table it leaves and the status code it answers
Outcomes(req, tbl) ==
    LET left(s, code) == [session |-> s, sessions |-> sessions, code |-> code]
    IN  IF req.op = "delete"
        THEN {[session |-> IF SessionId \in sessions THEN NoSession ELSE session,
               sessions |-> sessions \ {SessionId}, code |-> 200]}
        ELSE IF SessionId \notin tbl THEN {left(session, 404)}
        ELSE IF req.op = "get" THEN {left(session, 200)}
        ELSE IF req.op = "pick"
        THEN IF session.status = "clusters" /\ req.cluster_id \in DOMAIN session.cluster_labels
             THEN LET kept == Narrow(session.points, session.labels, req.cluster_id)
                  IN  {left(pick_cluster(session, req.cluster_id,
                                         fit_predict(clusterer, kept), llm_up), 200)}
             ELSE {left(session, 400)}
        ELSE IF req.op = "help"
        THEN IF /\ session.status \in {"clusters", "followup"}
                /\ session.followup_count < MAX_FOLLOWUP_QUESTIONS
             THEN {left(start_followup(session, llm_up), 200)}
             ELSE {left(session, 400)}
        ELSE IF req.op = "answer"
        THEN IF session.status # "followup" THEN {left(session, 400)}
             ELSE IF ~Pending(session) THEN {left(session, 500)}
             ELSE { left(answer_followup(session, req.answer, ranking,
                                         fit_predict(clusterer,
                                             _filter_by_followup(session.points, ranking)),
                                         llm_up), 200)
                    : ranking \in Rankings(Len(session.points)) }
        ELSE IF BacktrackRaises(session, req.node_id) THEN {left(session, 400)}
        ELSE LET target == session.nav_tree[FirstNode(session, req.node_id)]
                 saved == session.snapshots[target.round].points
                 raw1 == fit_predict(clusterer, saved)
                 kept == Narrow(saved, cluster_vectors(raw1), target.clusterId)
             IN  {left(backtrack(session, req.node_id, raw1,
                                 fit_predict(clusterer, kept), llm_up), 200)}

\* uvicorn accepts a request: the loop holds a new task for its handler
Receive(req) ==
    /\ loop.received < MaxRequests
    /\ loop' = [tasks |-> loop.tasks \cup {Task(loop.received + 1, req)},
                received |-> loop.received + 1]
    /\ UNCHANGED <<sessions, session, issued, clusterer, llm_up, llm_blank, resp, faults, scen>>

\* mutant: the handlers are plain `def` functions, which FastAPI runs in its
\* thread pool: one starts while another has not returned
enter_in_thread_pool(n) ==
    \E t \in loop.tasks :
    /\ t.id = n
    /\ t.stage = "pending"
    /\ loop' = [loop EXCEPT !.tasks = (@ \ {t}) \cup
                                {[t EXCEPT !.stage = "running", !.seen = View]}]
    /\ UNCHANGED <<sessions, session, issued, clusterer, llm_up, llm_blank, resp, faults, scen>>

\* the loop starts the coroutine of task n, which looks its session up.  The
\* loop runs one coroutine at a time and switches only at an await, and no
\* handler has one: none starts while another has not returned
Enter(n) ==
    \E t \in loop.tasks :
    /\ t.id = n
    /\ t.stage = "pending"
    /\ Running = {}
    /\ loop' = [loop EXCEPT !.tasks = (@ \ {t}) \cup
                                {[t EXCEPT !.stage = "running", !.seen = View]}]
    /\ UNCHANGED <<sessions, session, issued, clusterer, llm_up, llm_blank, resp, faults, scen>>

\* the coroutine of task n runs to its return (or to the exception that
\* answers for it)
Return(n) ==
    \E t \in Running :
    /\ t.id = n
    /\ \E o \in Outcomes(t.req, t.seen.sessions) :
        /\ o.session.round <= MaxRound
        /\ Len(o.session.nav_tree) <= MaxNodes
        /\ o.session.followup_count <= MaxCount
        /\ session' = o.session
        /\ sessions' = o.sessions
        /\ resp' = Response(t.req.op, o.code)
    /\ loop' = [loop EXCEPT !.tasks = @ \ {t}]
    /\ scen' = OffScenario
    /\ UNCHANGED <<issued, clusterer, llm_up, llm_blank, faults>>

\* POST /search below the threshold, a coroutine of the same loop: it runs when
\* no other has started and not returned
LoopStart ==
    /\ Running = {}
    /\ StartCluster

\* one clusterer that splits every pool in two, an LLM that answers
InitLoop ==
    /\ Init
    /\ clusterer = [shape |-> "dealt", k |-> 2, z |-> 0, ties |-> "low"]
    /\ llm_up
    /\ ~llm_blank

NextLoop ==
    \/ LoopStart
    \/ \E req \in LoopRequests : Receive(req)
    \/ \E n \in 1..MaxRequests : Enter(n)
    \/ \E n \in 1..MaxRequests : Return(n)

\* one session, and requests on it that arrive while others are served
SpecLoop == InitLoop /\ [][NextLoop]_vars

----------------------------------------------------------------------------
(* Claims *)

Stored == SessionId \in sessions

\* C1: after every operation followup_count is in 0..MAX_FOLLOWUP_QUESTIONS,
\* also when an all-noise re-cluster puts the session back into followup and
\* the user answers again.
C1_FollowupCountInRange ==
    Stored => session.followup_count \in 0..MAX_FOLLOWUP_QUESTIONS


\* the chunk ids of a pool as a multiset: how often each id occurs
IdCount(points, id) == Cardinality({ i \in DOMAIN points : points[i].id = id })

SameIds(p, q) == \A id \in 1..(MaxHits + 1) : IdCount(p, id) = IdCount(q, id)

\* C2: pick(a) at round 1, pick(b) at round 2, then backtrack("root"): the
\* backtrack succeeds and leaves the originally retrieved pool, an empty
\* conversation, followup_count 0 and a fresh clustering pass from round 0.
C2_BacktrackRootRoundTrip ==
    scen.stage = "back_root" =>
        /\ resp = Response("backtrack", 200)
        /\ SameIds(session.points, scen.hits)
        /\ session.conversation = <<>>
        /\ session.followup_count = 0
        /\ session.round = 1

Found == Stored /\ session.status = "found"

C6_SnapshotKept ==
    [][\A r \in (DOMAIN session.snapshots) \cap (DOMAIN session'.snapshots) :
            (\E i \in DOMAIN session.nav_tree, j \in DOMAIN session'.nav_tree :
                /\ session.nav_tree[i].round = r
                /\ session'.nav_tree[j].nodeId = session.nav_tree[i].nodeId
                /\ session'.nav_tree[j].round = r)
            => session'.snapshots[r].points = session.snapshots[r].points]_vars

\* C7: search, pick(a) at round 1, pick(b) at round 2, backtrack to the node
\* of the first pick: afterwards round = 1, current_nav_node is that node, the
\* snapshot keys are within {1}, and the pool is the pool the first pick left.
C7_BacktrackReenters ==
    scen.stage = "back_node" =>
        /\ session.round = 1
        /\ session.current_nav_node = NodeId(scen.a, 1)
        /\ DOMAIN session.snapshots \subseteq {1}
        /\ session.points = scen.pool

C7_Witness ==
    /\ scen.stage = "back_node"
    /\ scen.a = 0
    /\ scen.b = 2
    /\ resp = Response("backtrack", 200)

\* C8: after that backtrack the nav tree is the root and the round-1 siblings
\* only.
C8_TreeIsRootAndSiblings ==
    scen.stage = "back_node" /\ scen.a = 0 /\ scen.b = 2 =>
        \A i \in DOMAIN session.nav_tree :
            \/ session.nav_tree[i].nodeId = "root"
            \/ /\ session.nav_tree[i].round = 1
               /\ session.nav_tree[i].parentNodeId = "root"

OnPathChildren(s, parent) ==
    { i \in DOMAIN s.nav_tree : s.nav_tree[i].parentNodeId = parent /\ s.nav_tree[i].isOnPath }

\* C9: a node that is the parent of a picked node has exactly one child with
\* on_path = true.
C9_OneOnPathChild ==
    \A i \in DOMAIN session.nav_tree :
        LET parent == session.nav_tree[i].nodeId
        IN  OnPathChildren(session, parent) # {} =>
                Cardinality(OnPathChildren(session, parent)) = 1

\* the indices of the nodes from current_nav_node up to the root, following
\* parentNodeId (at most one step per node of the tree)
Branch(s) ==
    LET Up[k \in 0..Len(s.nav_tree)] ==
            IF k = 0 THEN {FirstNode(s, s.current_nav_node)} \ {0}
            ELSE Up[k - 1] \cup
                 ({ FirstNode(s, s.nav_tree[i].parentNodeId) : i \in Up[k - 1] } \ {0})
    IN  Up[Len(s.nav_tree)]

\* C10: on the branch from the root to current_nav_node, each depth level has
\* exactly one nav node with on_path = true.
C10_OneOnPathPerDepth ==
    Stored =>
        \A i \in Branch(session) :
            Cardinality({ j \in DOMAIN session.nav_tree :
                            /\ session.nav_tree[j].depth = session.nav_tree[i].depth
                            /\ session.nav_tree[j].isOnPath }) = 1


Terminal == session.status \in {"found", "exhausted"}

\* C4: a session whose user keeps issuing accepted pick and answer operations
\* reaches found or exhausted after finitely many of them.  Every pick narrows
\* the pool and the first MAX_FOLLOWUP_QUESTIONS answers are counted, so the
\* claim is that an answer given after those either ends the search, offers
\* clusters to pick from, or leaves a smaller pool: an answer that returns to
\* followup on a pool of the same size can be given again without end, the
\* clusterer and the filter being functions of the pool.
C4_Converges ==
    [][(/\ resp' = Response("answer", 200)
        /\ session.followup_count >= MAX_FOLLOWUP_QUESTIONS)
       => \/ session'.status \in {"found", "exhausted", "clusters"}
          \/ Len(session'.points) < Len(session.points)]_vars

\* C5: an operation that fails part-way leaves every session field as it was.
C5_FailedOperationIsAtomic == [][resp'.code >= 400 => session' = session]_vars

----------------------------------------------------------------------------
\* C11: an accepted pick or answer never enlarges the pool: along any run of
\* picks and answers with no backtrack in between, Len(points) does not increase.
C11_PoolNeverGrows ==
    [][(resp'.code = 200 /\ resp'.op \in {"pick", "answer"})
            => Len(session'.points) <= Len(session.points)]_vars

\* an accepted answer has cut the retrieved pool and another question is pending
C11_Witness ==
    /\ Stored
    /\ resp = Response("answer", 200)
    /\ session.status = "followup"
    /\ session.round = 1
    /\ Len(session.points) < Len(session.snapshots[1].points)

\* C12: while status is clusters, cluster_labels has between 1 and MAX_CLUSTERS
\* entries and cluster_labels, cluster_files and cluster_sizes have the same keys.
C12_ClusterKeysAgree ==
    (Stored /\ session.status = "clusters") =>
        /\ Cardinality(DOMAIN session.cluster_labels) \in 1..MAX_CLUSTERS
        /\ DOMAIN session.cluster_files = DOMAIN session.cluster_labels
        /\ DOMAIN session.cluster_sizes = DOMAIN session.cluster_labels

\* the clusterer found more than MAX_CLUSTERS clusters and the cap dropped one
C12_Witness ==
    /\ Stored
    /\ session.status = "clusters"
    /\ Cardinality(DOMAIN session.cluster_labels) = MAX_CLUSTERS
    /\ clusterer.k > MAX_CLUSTERS
    /\ clusterer.z = 0
    /\ \E i \in DOMAIN session.labels : session.labels[i] = 0 - 1

\* C13: found_file is set exactly when status is found, in every reachable
\* state: entering found records the file, leaving found clears it.
C13_FoundFileIffFound ==
    Stored => (session.found_file # None <=> session.status = "found")

\* C14: from a session in status clusters whose pool has exactly one unique
\* file, the next accepted pick, help or backtrack answers with status found.
C14_SingleFileEndsNextStep ==
    [][(/\ Stored
        /\ session.status = "clusters"
        /\ Cardinality(unique_files(session)) = 1
        /\ resp'.code = 200
        /\ resp'.op \in {"pick", "help", "backtrack"})
            => to_dict(session').status = "found"]_vars

\* C15: an accepted pick that leaves fewer than 3 chunks of more than one file
\* ends in exhausted without a clustering pass (round and snapshots unchanged)
\* and the serialized view lists the remaining files; fewer than 3 chunks of
\* one file end in found.
C15_SmallPoolExhausts ==
    [][(resp' = Response("pick", 200) /\ Len(session'.points) < 3) =>
            IF Cardinality(unique_files(session')) = 1
            THEN session'.status = "found"
            ELSE Cardinality(unique_files(session')) > 1 =>
                    /\ session'.status = "exhausted"
                    /\ session'.round = session.round
                    /\ session'.snapshots = session.snapshots
                    /\ "remaining_files" \in DOMAIN to_dict(session')
                    /\ to_dict(session').remaining_files = unique_files(session')]_vars

\* a pick has left two chunks of two files and the session is exhausted
C15_Witness ==
    /\ Stored
    /\ resp = Response("pick", 200)
    /\ session.status = "exhausted"
    /\ Len(session.points) = 2
    /\ Cardinality(unique_files(session)) = 2

\* C16 as stated: every accepted backtrack leaves the session in clusters or
\* followup, never in found or exhausted.
C16_BacktrackReopens ==
    [][resp' = Response("backtrack", 200)
            => session'.status \in {"clusters", "followup"}]_vars

\* C16 amended: an accepted backtrack runs the termination check on the pool
\* of the cluster it re-enters: the session ends in found, with that file
\* recorded, exactly when the pool holds one file, in exhausted only with
\* fewer than 3 chunks, and in clusters or followup otherwise.
C16_BacktrackRunsTermination ==
    [][resp' = Response("backtrack", 200) =>
            /\ session'.status \in {"clusters", "followup", "found", "exhausted"}
            /\ session'.status = "found" <=> Cardinality(unique_files(session')) = 1
            /\ session'.status = "found" => session'.found_file = TheFile(session')
            /\ session'.status = "exhausted" => Len(session'.points) < 3]_vars

\* a backtrack has re-entered a cluster of one file and ended the session
C16_Witness ==
    /\ Stored
    /\ resp = Response("backtrack", 200)
    /\ session.status = "found"
    /\ session.current_nav_node # "root"
    /\ session.found_file = TheFile(session)

\* C17: a backtrack to a node that is not in the tree, or whose round has no
\* snapshot, is answered 400 and changes no field of the session; on a session
\* that ended by direct match (no snapshot at all) every backtrack is rejected;
\* an accepted backtrack names a node of the tree whose round has a snapshot.
C17_RejectedBacktrackIsNoop ==
    [][(Stored /\ resp'.op = "backtrack") =>
            /\ resp'.code \in {200, 400}
            /\ resp'.code = 400 => session' = session
            /\ DOMAIN session.snapshots = {} => resp'.code = 400
            /\ resp'.code = 200 =>
                    \E node_id \in NodeIds :
                        /\ ~BacktrackRaises(session, node_id)
                        /\ session'.current_nav_node = node_id]_vars

\* a backtrack on a session that ended by direct match has been rejected
C17_Witness ==
    /\ Stored
    /\ resp = Response("backtrack", 400)
    /\ session.status = "found"
    /\ session.found_file # None
    /\ DOMAIN session.snapshots = {}

\* C18: a pick is accepted only when status is clusters and cluster_id is a key
\* of cluster_labels; any other pick is answered 400 and changes nothing.
C18_PickGuard ==
    [][(Stored /\ resp'.op = "pick") =>
            /\ resp'.code \in {200, 400}
            /\ resp'.code = 400 => session' = session
            /\ session.status # "clusters" => resp'.code = 400
            /\ resp'.code = 200 =>
                    \E cluster_id \in DOMAIN session.cluster_labels :
                        session'.points = Narrow(session.points, session.labels, cluster_id)]_vars

\* a pick of an unknown cluster id has been rejected while clusters are offered
C18_Witness ==
    /\ Stored
    /\ resp = Response("pick", 400)
    /\ session.status = "clusters"
    /\ DOMAIN session.cluster_labels # {}

\* C19: help is accepted exactly when status is clusters or followup and
\* followup_count is below MAX_FOLLOWUP_QUESTIONS; otherwise it is answered 400
\* and changes nothing.
C19_HelpGuard ==
    [][(Stored /\ resp'.op = "help") =>
            /\ resp'.code = 200 <=>
                    /\ session.status \in {"clusters", "followup"}
                    /\ session.followup_count < MAX_FOLLOWUP_QUESTIONS
            /\ resp'.code # 200 => (resp'.code = 400 /\ session' = session)]_vars

\* help has been rejected because the question budget is spent
C19_Witness ==
    /\ Stored
    /\ resp = Response("help", 400)
    /\ session.status \in {"clusters", "followup"}
    /\ session.followup_count >= MAX_FOLLOWUP_QUESTIONS

\* C20: an answer sent while status is not followup, or while no question is
\* pending, is answered 400 and changes nothing; it is never an internal error.
C20_AnswerRejectedCleanly ==
    [][(/\ Stored
        /\ resp'.op = "answer"
        /\ (session.status # "followup" \/ session.pending_question = None))
            => (resp'.code = 400 /\ session' = session)]_vars

\* C21 as stated: for an input pool of N >= 1 chunks the follow-up filter
\* returns exactly max(ceil(N/2), min(3, N)) chunks, all taken from the pool.
C21_FilterLength ==
    [][resp'.op = "_filter_by_followup" =>
            LET N == Len(session.points)
            IN  /\ Len(session'.points) = Max((N + 1) \div 2, Min(3, N))
                /\ \A i \in DOMAIN session'.points :
                        \E j \in DOMAIN session.points : session'.points[i] = session.points[j]]_vars

\* C21 amended: the filter returns the floor(N/2) best chunks when that is at
\* least 3 and the whole pool otherwise, each chunk of the pool at most once.
C21_FilterKeepsHalfOrAll ==
    [][resp'.op = "_filter_by_followup" =>
            LET N == Len(session.points)
            IN  /\ Len(session'.points) = IF N \div 2 >= 3 THEN N \div 2 ELSE N
                /\ \A i \in DOMAIN session'.points :
                        \E j \in DOMAIN session.points : session'.points[i] = session.points[j]
                /\ \A i, j \in DOMAIN session'.points :
                        session'.points[i] = session'.points[j] => i = j]_vars

\* a pool of 7 chunks, ranked last first, has been cut to its 3 best
C21_Witness ==
    /\ resp.op = "_filter_by_followup"
    /\ session.points = <<Chunk(7), Chunk(6), Chunk(5)>>

\* C22: the labels cluster_vectors returns have at most MAX_CLUSTERS distinct
\* non-noise values, these are 0..k-1 without gaps, and noise is -1.
C22_LabelsDenseAndCapped ==
    [][resp'.op = "cluster_vectors" =>
            LET out == session'.labels
                ids == { out[i] : i \in DOMAIN out } \ {0 - 1}
                k == Cardinality(ids)
            IN  /\ Len(out) = Len(session.labels)
                /\ k <= MAX_CLUSTERS
                /\ ids = 0..(k - 1)]_vars

\* the cap has turned a whole cluster into noise and four ids are left
C22_Witness ==
    /\ resp.op = "cluster_vectors"
    /\ Cardinality({ session.labels[i] : i \in DOMAIN session.labels } \ {0 - 1}) = MAX_CLUSTERS
    /\ Cardinality({ i \in DOMAIN session.labels : session.labels[i] = 0 - 1 })
            >= HDBSCAN_MIN_CLUSTER_SIZE

C24_DirectMatch ==
    [][resp' = Response("start", 200) =>
            IF session'.points[1].score >= DIRECT_MATCH_THRESHOLD
            THEN /\ SessionId \in sessions'
                 /\ session'.status = "found"
                 /\ session'.found_file = session'.points[1].file
                 /\ session'.round = 0
                 /\ DOMAIN session'.snapshots = {}
                 /\ session'.nav_tree = <<RootNode>>
            ELSE session'.status # "found"]_vars

\* a start with several hits, the first exactly at the threshold, has ended in found
C24_Witness ==
    /\ Stored
    /\ resp = Response("start", 200)
    /\ session.status = "found"
    /\ Len(session.points) > 1
    /\ session.points[1].score = DIRECT_MATCH_THRESHOLD

\* C25: a start that finds no hit is answered 404, one whose search fails is
\* answered with an error too, and neither stores a session nor changes one.
C25_FailedStartStoresNothing ==
    [][(resp'.op = "start" /\ resp'.code # 200) =>
            /\ resp'.code \in {404, 500}
            /\ sessions' = sessions
            /\ session' = session
            /\ issued' = issued]_vars

\* a start without hits has been answered 404 and the table is still empty
C25_Witness ==
    /\ resp = Response("start", 404)
    /\ sessions = {}
    /\ session = NoSession

\* C26: with the LLM failing on every call, a start below the threshold still
\* stores a session in clusters or followup whose expanded_query is the query,
\* whose cluster labels are "Cluster <id>", and whose pending question in
\* followup is the non-empty fallback question.
C26_LlmFailureIsNotFatal ==
    [][(/\ ~llm_up
        /\ resp' = Response("start", 200)
        /\ session'.points[1].score < DIRECT_MATCH_THRESHOLD) =>
            /\ SessionId \in sessions'
            /\ session'.status \in {"clusters", "followup"}
            /\ session'.expanded_query = session'.query
            /\ session'.status = "clusters" =>
                    /\ DOMAIN session'.cluster_labels # {}
                    /\ \A cid \in DOMAIN session'.cluster_labels :
                            session'.cluster_labels[cid] = "Cluster " \o ToStr(cid)
            /\ session'.status = "followup" =>
                    /\ session'.pending_question = FallbackQuestion
                    /\ session'.pending_question \notin {None, ""}]_vars

\* the LLM is down and a start has stored a session with fallback labels
C26_Witness ==
    /\ ~llm_up
    /\ Stored
    /\ resp = Response("start", 200)
    /\ session.status = "clusters"
    /\ session.expanded_query = Query
    /\ session.cluster_labels[0] = "Cluster 0"

\* C27: state-changing operations on one session are strictly serialized: at
\* most one is in flight at any time, and every operation, get_session
\* included, returns on the very table and session it found when it started,
\* so no other operation's change falls inside it and the session is the
\* result of the operations run one after another in the order they return.
C27_Serialized ==
    [][/\ Cardinality(Running') <= 1
       /\ \A t \in loop.tasks :
            (\A u \in loop'.tasks : u.id # t.id) => t.stage = "running" /\ t.seen = View]_vars

\* a pick has been answered 200 and the next operation on the session is in
\* flight while a third request waits
C27_Witness ==
    /\ resp = Response("pick", 200)
    /\ \E t \in Running : t.req.op \in {"help", "pick", "backtrack", "delete"}
    /\ \E u \in loop.tasks : u.stage = "pending"


\* the id was issued by a start and has been deleted since
Deleted == SessionId \in issued /\ SessionId \notin sessions

\* C28: delete is always answered 200 and leaves the id out of the table; once
\* an id is deleted it stays out, every later get, pick, help, answer or
\* backtrack on it is answered 404, and a second delete changes nothing.
C28_DeleteIsFinal ==
    [][/\ resp'.op = "delete" => (resp'.code = 200 /\ SessionId \notin sessions')
       /\ Deleted => SessionId \notin sessions'
       /\ (Deleted /\ resp'.op \in {"get", "pick", "help", "answer", "backtrack"})
                => resp'.code = 404
       /\ (SessionId \notin sessions /\ resp'.op = "delete")
                => (sessions' = sessions /\ session' = session)]_vars

\* a pick on a deleted session has been answered 404
C28_Witness ==
    /\ Deleted
    /\ resp = Response("pick", 404)

\* C29: an accepted help sets status followup and a non-empty pending
\* question and changes no other field: points, round, conversation,
\* followup_count, snapshots, nav_tree and current_nav_node stay as they were.
C29_HelpFrame ==
    [][resp' = Response("help", 200) =>
            /\ session.status \in {"clusters", "followup"}
            /\ session.followup_count < MAX_FOLLOWUP_QUESTIONS
            /\ session'.status = "followup"
            /\ session'.pending_question \notin {None, ""}
            /\ session' = [session EXCEPT !.status = "followup",
                                          !.pending_question = session'.pending_question]]_vars

\* C30: after an accepted backtrack to a node of round r the tree has no node
\* of a later round, snapshots has no later key, the target is on-path, no
\* other node of round r with the target's parent is, and current_nav_node is
\* the target's id.
C30_BacktrackPrunes ==
    [][resp' = Response("backtrack", 200) =>
            \E node_id \in NodeIds :
                /\ ~BacktrackRaises(session, node_id)
                /\ session'.current_nav_node = node_id
                /\ LET n == FirstNode(session', node_id)
                       target == session'.nav_tree[n]
                       r == session.nav_tree[FirstNode(session, node_id)].round
                   IN  /\ n # 0
                       /\ target.round = r
                       /\ \A i \in DOMAIN session'.nav_tree : session'.nav_tree[i].round <= r
                       /\ \A k \in DOMAIN session'.snapshots : k <= r
                       /\ target.isOnPath
                       /\ \A i \in DOMAIN session'.nav_tree :
                            (/\ i # n
                             /\ session'.nav_tree[i].round = r
                             /\ session'.nav_tree[i].parentNodeId = target.parentNodeId)
                                => ~session'.nav_tree[i].isOnPath]_vars

\* a backtrack from round 2 to the round-1 node picked first has made it
\* current again, and its sibling is not on-path
C30_Witness ==
    /\ Stored
    /\ resp = Response("backtrack", 200)
    /\ session.current_nav_node = NodeId(0, 1)
    /\ scen.stage = "back_node"
    /\ \E i \in DOMAIN session.nav_tree :
            /\ session.nav_tree[i].nodeId = NodeId(1, 1)
            /\ ~session.nav_tree[i].isOnPath

\* C31: after an accepted backtrack to a node of round r, conversation and
\* followup_count are the ones snapshots[r] held just before the backtrack,
\* however many questions were answered since.
C31_BacktrackRestoresConversation ==
    [][resp' = Response("backtrack", 200) =>
            \E node_id \in NodeIds :
                /\ ~BacktrackRaises(session, node_id)
                /\ session'.current_nav_node = node_id
                /\ LET r == session.nav_tree[FirstNode(session, node_id)].round
                   IN  /\ session'.conversation = session.snapshots[r].conversation
                       /\ session'.followup_count = session.snapshots[r].followup_count]_vars

\* a backtrack has restored a snapshot taken after one answer: one pair in
\* conversation, followup_count 1
C31_Witness ==
    /\ resp = Response("backtrack", 200)
    /\ Len(session.conversation) = 1
    /\ session.followup_count = 1

C34_PickTakesLabelledChunks ==
    [][/\ session'.status = "clusters" =>
            /\ Len(session'.labels) = Len(session'.points)
            /\ \A i \in DOMAIN session'.labels :
                    session'.labels[i] # 0 - 1 => session'.labels[i] \in DOMAIN session'.cluster_labels
       /\ resp' = Response("pick", 200) =>
            \E cid \in DOMAIN session.cluster_labels :
                LET at == { i \in DOMAIN session.points :
                                i \in DOMAIN session.labels /\ session.labels[i] = cid }
                    kept == SelectSeq(session.points,
                                LAMBDA pt : \E i \in at : session.points[i] = pt)
                IN  /\ session'.points = kept
                    /\ kept # <<>>
                    /\ Len(session.labels) = Len(session.points)
                    /\ Len(kept) = session.cluster_sizes[cid]]_vars

\* C35: in every state pending_question is set (not None) exactly when status
\* is followup.
C35_PendingIffFollowup ==
    (session.pending_question # None) <=> (session.status = "followup")

\* C36: in every state the nodeIds of the nav tree are pairwise distinct.
C36_NodeIdsDistinct ==
    \A i, j \in DOMAIN session.nav_tree :
        session.nav_tree[i].nodeId = session.nav_tree[j].nodeId => i = j

\* C37: in every state each node of the nav tree other than the root has a
\* parentNodeId that names a node of the tree of strictly smaller depth.
C37_TreeWellFormed ==
    \A i \in DOMAIN session.nav_tree :
        session.nav_tree[i].nodeId # "root" =>
            /\ FirstNode(session, session.nav_tree[i].parentNodeId) # 0
            /\ \A j \in DOMAIN session.nav_tree :
                    session.nav_tree[j].nodeId = session.nav_tree[i].parentNodeId
                        => session.nav_tree[j].depth < session.nav_tree[i].depth

\* C38: an accepted backtrack to a cluster node that follows at once an
\* accepted backtrack to the same node changes neither the pool, nor round,
\* status, snapshots or the nav tree.
C38_BacktrackIdempotent ==
    [][(/\ resp = Response("backtrack", 200)
        /\ resp' = Response("backtrack", 200)
        /\ session'.current_nav_node = session.current_nav_node
        /\ session.current_nav_node # "root") =>
            /\ session'.points = session.points
            /\ session'.round = session.round
            /\ session'.status = session.status
            /\ session'.snapshots = session.snapshots
            /\ session'.nav_tree = session.nav_tree]_vars

\* C39: whenever status is clusters, the keys of snapshots are exactly
\* 1..round (round among them, and the largest) and snapshots[round].points is
\* the current pool, the same chunks in the same order.
C39_SnapshotOfCurrentRound ==
    session.status = "clusters" =>
        /\ session.round >= 1
        /\ DOMAIN session.snapshots = 1..session.round
        /\ session.snapshots[session.round].points = session.points

\* C40: in every state of a stored session current_nav_node names a node of
\* the tree that is on-path; an accepted pick makes current, and marks
\* on-path, a node that the clustering of the current round created under the
\* node that was current, and no node of an earlier clustering pass.
C40_CurrentNodeOnPath ==
    [][/\ SessionId \in sessions' =>
            \E i \in DOMAIN session'.nav_tree :
                /\ session'.nav_tree[i].nodeId = session'.current_nav_node
                /\ session'.nav_tree[i].isOnPath
       /\ resp' = Response("pick", 200) =>
            /\ \E i \in DOMAIN session.nav_tree :
                    /\ session.nav_tree[i].nodeId = session'.current_nav_node
                    /\ session.nav_tree[i].parentNodeId = session.current_nav_node
                    /\ session.nav_tree[i].round = session.round
                    /\ session'.nav_tree[i].isOnPath
            /\ \A i \in DOMAIN session.nav_tree :
                    (session'.nav_tree[i].isOnPath /\ ~session.nav_tree[i].isOnPath) =>
                        /\ session.nav_tree[i].parentNodeId = session.current_nav_node
                        /\ session.nav_tree[i].round = session.round]_vars

====
